---- MODULE Spec2Model ----
(***************************************************************************)
(* tsh: a tiny shell with job control (src/tsh.c).                         *)
(*                                                                         *)
(* The model has three kinds of steps:                                     *)
(*   - the main flow (main's read/eval loop, eval, do_bgfg, waitfg),       *)
(*     one step per statement that reads or writes shared state;           *)
(*   - the signal handlers: sigchld_handler, one step per turn of its      *)
(*     loop, and sigint_handler / sigtstp_handler, one step each; they     *)
(*     run on top of the main flow, and the latter two on top of           *)
(*     sigchld_handler too (a handler only blocks its own signal);         *)
(*   - the environment: the children (execve, exit, stop, death by         *)
(*     signal) and the user's ctrl-c / ctrl-z.                             *)
(***************************************************************************)
EXTENDS Integers, Sequences, FiniteSets, TLC

\* ---------------------------------------------------------------- bounds
\* Slots of the job table (the source has 16; the model scales it down).
MAXJOBS == 4
\* Process ids the kernel hands out, 1..MaxPid; a reaped pid is free again.
MaxPid == 2
\* Launching is disabled once nextjid exceeds this (nextjid can grow without
\* limit in the source: deletejob sets it to maxjid + 1).
MaxJid == 5

\* ------------------------------------------------------------- constants
UNDEF == 0
FG == 1
BG == 2
ST == 3

Slots == 1..MAXJOBS
\* NULL, as a slot index: no slot.
NULL == 0

\* A child process, as the kernel sees it.
\*   none   no such process (never forked, or reaped)
\*   pre    forked, still running eval's child branch (before setpgid/execve)
\*   run    running the user's program, in its own process group
\*   stopU  stopped, the stop not yet reported by waitpid
\*   stopR  stopped, the stop already reported by waitpid
\*   zexit  zombie: the program called exit
\*   zfail  zombie: execve failed and eval's child branch called exit
\*   zsig   zombie: killed by a signal
ChildStates == {"none", "pre", "run", "stopU", "stopR", "zexit", "zfail", "zsig"}
Zombies == {"zexit", "zfail", "zsig"}

Errnos == {"0", "ECHILD", "EINTR", "ESRCH"}

VARIABLES
    jobs,       \* the job list: Slots -> [pid, jid, state]
    nextjid,    \* next job ID to allocate
    pc,         \* where the main flow is
    bg,         \* eval's bg / do_bgfg's is_BG
    pid,        \* eval's pid / do_bgfg's pidt / waitfg's pid
    jobid,      \* do_bgfg's jobid
    argv1,      \* argv[1] of the bg/fg command do_bgfg is running
    jid,        \* do_bgfg's and waitfg's struct job_t *jid (a slot, or NULL)
    blocked,    \* SIGCHLD is in the main flow's signal mask
    pending,    \* signals pending for the shell: a subset of {"chld","int","tstp"}
    hs,         \* sigchld_handler is running (TRUE) or not (FALSE)
    errno,      \* errno of the shell process
    intr,       \* a handler ran during waitfg's current sleep
    ch,         \* the children: Pids -> ChildStates
    exitwhy,    \* why the shell process ended ("" while it runs)
    out         \* the line the last step printed, if it printed one

\* The pids addjob and deletejob are called with when the job list is driven
\* on its own (SpecTable).
TablePids == (0 - 1)..(MAXJOBS + 1)

\* The process ids of the kernel's pool.
Pids == DOMAIN ch

vars == <<jobs, nextjid, pc, bg, pid, jobid, argv1, jid, blocked, pending, hs, errno,
          intr, ch, exitwhy, out>>

\* No argv[1]: the null pointer that ends argv.
NoArg == [given |-> FALSE, s |-> <<>>]

\* A printed line: who printed it, the numbers in it, and its fixed text.
NoOut == [by |-> "", jid |-> 0, pid |-> 0, text |-> ""]
Line(w, j, p, t) == [by |-> w, jid |-> j, pid |-> p, text |-> t]

\* ------------------------------------------------- job list helper routines
EmptyJob == [pid |-> 0, jid |-> 0, state |-> UNDEF]

clearjob(js, i) == [js EXCEPT ![i] = EmptyJob]

initjobs == [i \in Slots |-> EmptyJob]

RECURSIVE MaxOf(_)
MaxOf(S) == IF S = {} THEN 0
            ELSE LET x == CHOOSE y \in S : TRUE
                     m == MaxOf(S \ {x})
                 IN IF x > m THEN x ELSE m

maxjid(js) == MaxOf({js[i].jid : i \in Slots})

\* The lowest slot of the set S of slots, or NULL: where a loop over the table
\* that returns at its first match stops.
FirstSlot(S) ==
    IF S # {}
    THEN CHOOSE i \in S : \A k \in S : i <= k
    ELSE NULL

\* addjob with ++nextjid for nextjid++: the job gets the incremented jid.
addjob_PreIncrement(js, nj, p, st) ==
    LET free == {i \in Slots : js[i].pid = 0}
        i == FirstSlot(free)
    IN  IF p < 1 \/ i = NULL
        THEN [ok |-> FALSE, jobs |-> js, nextjid |-> nj]
        ELSE [ok |-> TRUE,
              jobs |-> [js EXCEPT ![i] = [pid |-> p, jid |-> nj + 1, state |-> st]],
              nextjid |-> IF nj + 1 > MAXJOBS THEN 1 ELSE nj + 1]

\* addjob: [ok, jobs, nextjid] after the call.
addjob(js, nj, p, st) ==
    LET free == {i \in Slots : js[i].pid = 0}
        i == FirstSlot(free)
    IN  IF p < 1 \/ i = NULL
        THEN [ok |-> FALSE, jobs |-> js, nextjid |-> nj]
        ELSE [ok |-> TRUE,
              jobs |-> [js EXCEPT ![i] = [pid |-> p, jid |-> nj, state |-> st]],
              nextjid |-> IF nj + 1 > MAXJOBS THEN 1 ELSE nj + 1]

\* deletejob without its nextjid = maxjid(jobs)+1.
deletejob_KeepsNextjid(js, nj, p) ==
    LET hit == {i \in Slots : js[i].pid = p}
        i == FirstSlot(hit)
    IN  IF p < 1 \/ i = NULL
        THEN [ok |-> FALSE, jobs |-> js, nextjid |-> nj]
        ELSE [ok |-> TRUE, jobs |-> clearjob(js, i), nextjid |-> nj]

\* deletejob: [ok, jobs, nextjid] after the call.
deletejob(js, nj, p) ==
    LET hit == {i \in Slots : js[i].pid = p}
        i == FirstSlot(hit)
    IN  IF p < 1 \/ i = NULL
        THEN [ok |-> FALSE, jobs |-> js, nextjid |-> nj]
        ELSE [ok |-> TRUE,
              jobs |-> clearjob(js, i),
              nextjid |-> maxjid(clearjob(js, i)) + 1]

fgpid(js) ==
    LET isfg == {i \in Slots : js[i].state = FG}
        i == FirstSlot(isfg)
    IN  IF i = NULL THEN 0 ELSE js[i].pid

getjobpid(js, p) ==
    LET hit == {i \in Slots : js[i].pid = p}
    IN  IF p < 1 THEN NULL ELSE FirstSlot(hit)

getjobjid(js, j) ==
    LET hit == {i \in Slots : js[i].jid = j}
    IN  IF j < 1 THEN NULL ELSE FirstSlot(hit)

pid2jid(js, p) ==
    LET i == getjobpid(js, p)
    IN  IF i = NULL THEN 0 ELSE js[i].jid

\* ------------------------------------------------------------------ kernel
\* The process group p exists: its leader has called setpgid and is not reaped.
GroupExists(p) == p \in Pids /\ ch[p] \notin {"none", "pre"}

\* What a signal sent by kill can make of a child in state s: its default
\* action, or nothing (the program may catch or ignore it; a stop signal and
\* a termination signal stay pending on a stopped process).
Delivered(s, sig) ==
    {s} \cup
    CASE sig = "SIGINT"  /\ s = "run" -> {"zsig"}
      [] sig = "SIGTSTP" /\ s = "run" -> {"stopU"}
      [] sig = "SIGCONT" /\ s \in {"stopU", "stopR"} -> {"run"}
      [] OTHER -> {}

\* Kill(-p, sig), called with the pending signals pend: sets the children,
\* errno and the shell's pending signals. p = 0 is kill(0, sig): the caller's
\* own process group, the shell included. ESRCH is tolerated by the wrapper;
\* errno keeps it.
Kill(p, sig, pend) ==
    IF p = 0
    THEN /\ ch' = ch
         /\ errno' = errno
         /\ pending' = pend \cup
              (CASE sig = "SIGINT" -> {"int"}
                 [] sig = "SIGTSTP" -> {"tstp"}
                 [] OTHER -> {})
    ELSE IF ~GroupExists(p)
    THEN /\ ch' = ch
         /\ errno' = "ESRCH"
         /\ pending' = pend
    ELSE /\ errno' = errno
         /\ \E s \in Delivered(ch[p], sig) :
              /\ ch' = [ch EXCEPT ![p] = s]
              /\ pending' = IF s = ch[p] THEN pend ELSE pend \cup {"chld"}

\* ---------------------------------------------------------------- the state
\* The state after main has installed the handlers and called initjobs, with
\* a kernel whose pool holds the process ids 1..n.
InitWith(n) ==
    /\ jobs = initjobs
    /\ nextjid = 1
    /\ pc = "prompt"
    /\ bg = FALSE
    /\ pid = 0
    /\ jobid = 0
    /\ argv1 = NoArg
    /\ jid = NULL
    /\ blocked = FALSE
    /\ pending = {}
    /\ hs = FALSE
    /\ errno = "0"
    /\ intr = FALSE
    /\ ch = [p \in 1..n |-> "none"]
    /\ exitwhy = ""
    /\ out = NoOut

Init == InitWith(MaxPid)

\* The shell process runs on. It does not once it has exited, and it makes
\* no progress once it has sent SIGINT or SIGTSTP to itself: the signal is
\* delivered the moment its handler returns, the handler finds the same job
\* list and sends it again. From there only sigchld_handler could still run,
\* nested in that loop, with the steps it takes anyway while the main flow
\* stands still; the model does not follow the process further.
Alive ==
    /\ pc # "exited"
    /\ pending \cap {"int", "tstp"} = {}

\* The kernel delivers signal h before the shell runs another instruction:
\* it is pending and not blocked (SIGCHLD is blocked while it is in the main
\* flow's mask and while sigchld_handler runs).
Deliverable(h) ==
    /\ Alive
    /\ h \in pending
    /\ h = "chld" => (~blocked /\ ~hs)

\* The main flow runs: the shell is alive, no handler is running and no
\* signal is about to be delivered.
Main(at) ==
    /\ Alive
    /\ pc = at
    /\ ~hs
    /\ \A h \in pending : ~Deliverable(h)

\* exit(): the process is gone; nothing of it runs again.
Exit(why) ==
    /\ pc' = "exited"
    /\ exitwhy' = why
    /\ hs' = FALSE

\* Back in main's loop, waiting for the next command line. A local variable
\* holds its value only while the code can still read it: eval's and do_bgfg's
\* are dead here (and do_bgfg's jid after its last use, its jobid and argv in fg).
Return ==
    /\ pc' = "prompt"
    /\ bg' = FALSE
    /\ pid' = 0
    /\ jobid' = 0
    /\ argv1' = NoArg
    /\ jid' = NULL

\* ------------------------------------------------------------ eval: launch
\* eval without its Sigprocmask(SIG_BLOCK): the child is forked with SIGCHLD
\* deliverable.
CmdLaunch_NoBlock(b) ==
    /\ Main("prompt")
    /\ nextjid <= MaxJid
    /\ \E p \in Pids : ch[p] = "none"
    /\ bg' = b
    /\ pc' = "fork"
    /\ out' = NoOut
    /\ UNCHANGED <<jobs, nextjid, pid, jobid, argv1, jid, blocked, pending, hs, errno, intr,
                   ch, exitwhy>>

\* A command line that is no built-in: block SIGCHLD.
CmdLaunch(b) ==
    /\ Main("prompt")
    /\ nextjid <= MaxJid
    /\ \E p \in Pids : ch[p] = "none"
    /\ bg' = b
    /\ blocked' = TRUE
    /\ pc' = "fork"
    /\ out' = NoOut
    /\ UNCHANGED <<jobs, nextjid, pid, jobid, argv1, jid, pending, hs, errno, intr, ch, exitwhy>>

\* Fork returns the child's pid in the parent.
Fork ==
    /\ Main("fork")
    /\ \E p \in Pids :
         /\ ch[p] = "none"
         /\ \A q \in Pids : ch[q] = "none" => p <= q
         /\ ch' = [ch EXCEPT ![p] = "pre"]
         /\ pid' = p
    /\ pc' = "addjob"
    /\ out' = NoOut
    /\ UNCHANGED <<jobs, nextjid, bg, jobid, argv1, jid, blocked, pending, hs, errno, intr, exitwhy>>

\* fork fails: unix_error exits the shell.
ForkFail ==
    /\ Main("fork")
    /\ Exit("fork")
    /\ out' = NoOut
    /\ UNCHANGED <<jobs, nextjid, bg, pid, jobid, argv1, jid, blocked, pending, errno, intr, ch>>

\* eval that unblocks SIGCHLD after addjob whether or not it succeeded.
Addjob_UnblocksOnFailure ==
    /\ Main("addjob")
    /\ LET r == addjob(jobs, nextjid, pid, IF bg THEN BG ELSE FG)
       IN  /\ jobs' = r.jobs
           /\ nextjid' = r.nextjid
           /\ IF r.ok
              THEN /\ pc' = "unblock"
                   /\ out' = NoOut
                   /\ UNCHANGED <<bg, pid, jobid, argv1, jid, blocked>>
              ELSE /\ Return
                   /\ blocked' = FALSE
                   /\ out' = Line("addjob", 0, 0, "Tried to create too many jobs")
    /\ UNCHANGED <<pending, hs, errno, intr, ch, exitwhy>>

\* addjob(jobs, pid, FG or BG, cmdline); on failure eval returns as it is.
Addjob ==
    /\ Main("addjob")
    /\ LET r == addjob(jobs, nextjid, pid, IF bg THEN BG ELSE FG)
       IN  /\ jobs' = r.jobs
           /\ nextjid' = r.nextjid
           /\ IF r.ok
              THEN /\ pc' = "unblock"
                   /\ out' = NoOut
                   /\ UNCHANGED <<bg, pid, jobid, argv1, jid>>
              ELSE /\ Return
                   /\ out' = Line("addjob", 0, 0, "Tried to create too many jobs")
    /\ UNCHANGED <<blocked, pending, hs, errno, intr, ch, exitwhy>>

\* Sigprocmask(SIG_UNBLOCK) after a successful addjob.
Unblock ==
    /\ Main("unblock")
    /\ blocked' = FALSE
    /\ pc' = IF bg THEN "print" ELSE "waitfg"
    /\ out' = NoOut
    /\ UNCHANGED <<jobs, nextjid, bg, pid, jobid, argv1, jid, pending, hs, errno, intr, ch, exitwhy>>

\* printf("[%d] (%d) %s", pid2jid(pid), pid, cmdline) of a background launch.
PrintBg ==
    /\ Main("print")
    /\ out' = Line("eval", pid2jid(jobs, pid), pid, "[jid] (pid) cmdline")
    /\ Return
    /\ UNCHANGED <<jobs, nextjid, blocked, pending, hs, errno, intr, ch, exitwhy>>

\* ------------------------------------------------------------------ waitfg
\* jid = getjobpid(jobs, pid)
WaitfgEnter ==
    /\ Main("waitfg")
    /\ jid' = getjobpid(jobs, pid)
    /\ pc' = "wtest"
    /\ out' = NoOut
    /\ UNCHANGED <<jobs, nextjid, bg, pid, jobid, argv1, blocked, pending, hs, errno, intr, ch, exitwhy>>

WaitfgReturn ==
    /\ out' = NoOut
    /\ Return
    /\ UNCHANGED <<hs, exitwhy>>

WaitfgSleep ==
    /\ pc' = "wsleep"
    /\ out' = NoOut
    /\ UNCHANGED <<bg, pid, jobid, argv1, jid, hs, exitwhy>>

\* Reading or writing through a null struct job_t * is undefined: the process
\* dies of SIGSEGV, or the access goes unnoticed.
Segv ==
    /\ Exit("segv")
    /\ out' = NoOut
    /\ UNCHANGED <<bg, pid, jobid, argv1, jid>>

\* while (fgpid(jobs) && jid->state != ST): with jid NULL the second operand
\* reads through a null pointer.
WaitfgTest ==
    /\ Main("wtest")
    /\ IF fgpid(jobs) = 0
       THEN WaitfgReturn
       ELSE IF jid = NULL
       THEN Segv \/ WaitfgReturn \/ WaitfgSleep
       ELSE IF jobs[jid].state = ST
       THEN WaitfgReturn
       ELSE WaitfgSleep
    /\ UNCHANGED <<jobs, nextjid, blocked, pending, errno, intr, ch>>

\* sleep(1) is over: the second went by, or a handler cut it short (EINTR).
WaitfgWake ==
    /\ Main("wsleep")
    /\ pc' = "wtest"
    /\ errno' = IF intr THEN "EINTR" ELSE errno
    /\ intr' = FALSE
    /\ out' = NoOut
    /\ UNCHANGED <<jobs, nextjid, bg, pid, jobid, argv1, jid, blocked, pending, hs, ch, exitwhy>>

\* ----------------------------------------------------------------- do_bgfg
\* The characters of argv[1]: digits, a minus sign, a percent sign and "a",
\* which stands for any other character.
Digits == {"0", "1", "2", "3", "4", "5", "6"}

DigitVal(c) ==
    CASE c = "0" -> 0 [] c = "1" -> 1 [] c = "2" -> 2 [] c = "3" -> 3
      [] c = "4" -> 4 [] c = "5" -> 5 [] c = "6" -> 6

\* The strings tried as argv[1]: an optional %, an optional sign, at most
\* one digit, and an optional character that is no digit.
ArgStrings ==
    {pre \o sgn \o dig \o rest :
        pre \in {<<>>, <<"%">>}, sgn \in {<<>>, <<"-">>},
        dig \in {<<>>} \cup {<<d>> : d \in Digits},
        rest \in {<<>>, <<"a">>}}

\* argv[1] of bg/fg: absent (a null pointer), or a string.
Args == {NoArg} \cup [given : {TRUE}, s : ArgStrings]

\* atoi's digit loop: the value of the longest prefix of digits of s, after acc.
RECURSIVE AtoiDigits(_, _)
AtoiDigits(s, acc) ==
    IF s # <<>> /\ Head(s) \in Digits
    THEN AtoiDigits(Tail(s), 10 * acc + DigitVal(Head(s)))
    ELSE acc

\* atoi(s): an optional sign and the digits that follow; what comes after
\* them is ignored, and a string that starts with neither gives 0.
Atoi(s) ==
    IF s # <<>> /\ Head(s) = "-" THEN 0 - AtoiDigits(Tail(s), 0)
    ELSE AtoiDigits(s, 0)

\* argv[1][0] == '%'
IsPct(s) == s # <<>> /\ Head(s) = "%"

\* argv[1] + 1 (of the empty string: the bytes after it in parseline's
\* buffer, whose value decides nothing, since the test that reads it also
\* needs argv[1][0] == '%').
Rest(s) == IF s = <<>> THEN <<>> ELSE Tail(s)

\* The number do_bgfg reads from argv[1].
ArgNum(s) == IF IsPct(s) THEN Atoi(Rest(s)) ELSE Atoi(s)

\* The test that prints "argument must be a PID or %jobid".
BadArg(s) ==
    \/ Atoi(Rest(s)) = 0 /\ IsPct(s)
    \/ Atoi(s) = 0 /\ ~IsPct(s)

\* The job the argument resolves to: getjobjid for %n, getjobpid for n.
Lookup(s) ==
    IF IsPct(s) THEN getjobjid(jobs, ArgNum(s)) ELSE getjobpid(jobs, ArgNum(s))

\* bg/fg up to and including the lookup of the job.
CmdBgfg(b, a) ==
    /\ Main("prompt")
    /\ IF ~a.given
       THEN /\ out' = Line(IF b THEN "bg" ELSE "fg", 0, 0, "command requires PID or %jobid argument")
            /\ Return
       ELSE IF BadArg(a.s)
       THEN /\ out' = Line(IF b THEN "bg" ELSE "fg", 0, 0, "argument must be a PID or %jobid")
            /\ Return
       ELSE IF Lookup(a.s) = NULL
       THEN /\ out' = IF IsPct(a.s) THEN Line("do_bgfg", ArgNum(a.s), 0, "%jid: No such job")
                           ELSE Line("do_bgfg", 0, ArgNum(a.s), "(pid): No such process")
            /\ Return
       ELSE /\ jid' = Lookup(a.s)
            /\ pid' = jobs[Lookup(a.s)].pid
            /\ jobid' = IF IsPct(a.s) THEN ArgNum(a.s) ELSE jobs[Lookup(a.s)].pid
            /\ argv1' = a
            /\ bg' = b
            /\ pc' = "bgfg_set"
            /\ out' = NoOut
    /\ UNCHANGED <<jobs, nextjid, blocked, pending, hs, errno, intr, ch, exitwhy>>

\* jid->state = BG or FG
BgfgSet ==
    /\ Main("bgfg_set")
    /\ jobs' = [jobs EXCEPT ![jid].state = IF bg THEN BG ELSE FG]
    /\ pc' = "bgfg_kill"
    /\ jid' = NULL
    /\ out' = NoOut
    /\ UNCHANGED <<nextjid, bg, pid, jobid, argv1, blocked, pending, hs, errno, intr, ch, exitwhy>>

\* Kill(-pidt, SIGCONT); then bg prints and returns, fg calls waitfg(pidt).
BgfgKill ==
    /\ Main("bgfg_kill")
    /\ Kill(pid, "SIGCONT", pending)
    /\ IF bg
       THEN /\ out' = Line("bg", jobid, pid, "[jid] (pid) cmdline")
            /\ Return
       ELSE /\ out' = NoOut
            /\ pc' = "waitfg"
            /\ jobid' = 0
            /\ argv1' = NoArg
            /\ UNCHANGED <<bg, pid, jid>>
    /\ UNCHANGED <<jobs, nextjid, blocked, hs, intr, exitwhy>>

\* ------------------------------------------------------- other built-ins
\* jobs: listjobs prints the occupied slots.
CmdJobs ==
    /\ Main("prompt")
    /\ out' = Line("jobs", 0, 0, "[jid] (pid) state cmdline ...")
    /\ UNCHANGED <<jobs, nextjid, pc, bg, pid, jobid, argv1, jid, blocked, pending, hs,
                   errno, intr, ch, exitwhy>>

\* quit that empties the job list before it exits.
CmdQuit_ClearsJobs ==
    /\ Main("prompt")
    /\ Exit("quit")
    /\ jobs' = initjobs
    /\ out' = NoOut
    /\ UNCHANGED <<nextjid, bg, pid, jobid, argv1, jid, blocked, pending, errno, intr, ch>>

\* quit: exit(0)
CmdQuit ==
    /\ Main("prompt")
    /\ Exit("quit")
    /\ out' = NoOut
    /\ UNCHANGED <<jobs, nextjid, bg, pid, jobid, argv1, jid, blocked, pending, errno, intr, ch>>

\* --------------------------------------------------------- signal handlers
\* sigchld_handler starts; it cuts short the sleep of waitfg.
ChldEnter ==
    /\ Deliverable("chld")
    /\ pending' = pending \ {"chld"}
    /\ hs' = TRUE
    /\ intr' = (intr \/ pc = "wsleep")
    /\ out' = NoOut
    /\ UNCHANGED <<jobs, nextjid, pc, bg, pid, jobid, argv1, jid, blocked, errno, ch, exitwhy>>

\* sigchld_handler runs its next instruction.
InChld ==
    /\ Alive
    /\ hs
    /\ \A h \in pending : ~Deliverable(h)

\* The loop body without its WIFSTOPPED case: every reaped child is deleted.
Reaped_AlwaysDeletes(js, p, how) == deletejob(js, nextjid, p).jobs

\* The job list after the handler's loop body for child p, whose status says
\* how (stopped, signaled, exited). A stopped child without a job has no slot
\* to write to.
Reaped(js, p, how) ==
    IF how = "stopped"
    THEN IF getjobpid(js, p) = NULL THEN js
         ELSE [js EXCEPT ![getjobpid(js, p)].state = ST]
    ELSE deletejob(js, nextjid, p).jobs

\* One turn of the loop: waitpid(-1, &status, WNOHANG|WUNTRACED) returns p > 0.
ChldReap(p) ==
    /\ InChld
    /\ ch[p] \in Zombies \cup {"stopU"}
    /\ LET how == CASE ch[p] = "stopU" -> "stopped"
                    [] ch[p] = "zsig" -> "signaled"
                    [] OTHER -> "exited"
           seen == /\ out' = NoOut
                   /\ UNCHANGED <<pc, bg, pid, jobid, argv1, jid, hs, exitwhy>>
       IN  /\ ch' = [ch EXCEPT ![p] = IF how = "stopped" THEN "stopR" ELSE "none"]
           /\ jobs' = Reaped(jobs, p, how)
           /\ nextjid' = IF how = "stopped" THEN nextjid
                         ELSE deletejob(jobs, nextjid, p).nextjid
           /\ IF how = "stopped" /\ getjobpid(jobs, p) = NULL
              THEN Segv \/ seen
              ELSE seen
    /\ UNCHANGED <<blocked, pending, errno, intr>>

\* The loop ends: waitpid returns -1 with ECHILD (no children) or 0 (children,
\* none with a new status; errno is left as it was). Then errno is tested.
ChldDone ==
    /\ InChld
    /\ \A p \in Pids : ch[p] \notin Zombies \cup {"stopU"}
    /\ errno' = IF \A p \in Pids : ch[p] = "none" THEN "ECHILD" ELSE errno
    /\ IF errno' \notin {"ECHILD", "EINTR"}
       THEN /\ Exit("waitpid error")
            /\ out' = Line("unix_error", 0, 0, "waitpid error")
       ELSE /\ hs' = FALSE
            /\ out' = NoOut
            /\ UNCHANGED <<pc, exitwhy>>
    /\ UNCHANGED <<jobs, nextjid, bg, pid, jobid, argv1, jid, blocked, pending, intr, ch>>

SigOf(h) == IF h = "int" THEN "SIGINT" ELSE "SIGTSTP"

\* A sigtstp_handler that marks the foreground job stopped itself.
SigHandler_MarksStopped(h) ==
    /\ Alive
    /\ h \in {"int", "tstp"}
    /\ Kill(fgpid(jobs), SigOf(h), pending \ {h})
    /\ jobs' = IF h = "tstp" /\ getjobpid(jobs, fgpid(jobs)) # NULL
               THEN [jobs EXCEPT ![getjobpid(jobs, fgpid(jobs))].state = ST]
               ELSE jobs
    /\ out' = NoOut
    /\ intr' = (intr \/ pc = "wsleep")
    /\ UNCHANGED <<nextjid, pc, bg, pid, jobid, argv1, jid, blocked, hs, exitwhy>>

\* sigint_handler / sigtstp_handler, on a ctrl-c / ctrl-z of the user or on a
\* signal the shell sent to itself: pid = fgpid(jobs); Kill(-pid, sig).
SigHandler(h) ==
    /\ Alive
    /\ h \in {"int", "tstp"}
    /\ Kill(fgpid(jobs), SigOf(h), pending \ {h})
    /\ out' = NoOut
    /\ intr' = (intr \/ pc = "wsleep")
    /\ UNCHANGED <<jobs, nextjid, pc, bg, pid, jobid, argv1, jid, blocked, hs, exitwhy>>

\* -------------------------------------------------------------- environment
\* A child changes state; the kernel sends SIGCHLD to the shell.
ChildTo(p, from, to) ==
    /\ Alive
    /\ ch[p] \in from
    /\ ch' = [ch EXCEPT ![p] = to]
    /\ pending' = pending \cup {"chld"}
    /\ out' = NoOut
    /\ UNCHANGED <<jobs, nextjid, pc, bg, pid, jobid, argv1, jid, blocked, hs, errno, intr, exitwhy>>

\* eval's child branch: setpgid(0, 0) and a successful execve.
ChildExec(p) ==
    /\ Alive
    /\ ch[p] = "pre"
    /\ ch' = [ch EXCEPT ![p] = "run"]
    /\ out' = NoOut
    /\ UNCHANGED <<jobs, nextjid, pc, bg, pid, jobid, argv1, jid, blocked, pending, hs, errno, intr, exitwhy>>

\* The status eval's child branch exits with when execve fails: exit(0).
ExecFailStatus == 0

\* eval's child branch: execve fails, "Command not found", exit(0).
ChildExecFail(p) == ChildTo(p, {"pre"}, "zfail")

ChildExit(p) == ChildTo(p, {"run"}, "zexit")

ChildSignaled(p) == ChildTo(p, {"pre", "run", "stopU", "stopR"}, "zsig")

ChildStop(p) == ChildTo(p, {"run"}, "stopU")

ChildCont(p) == ChildTo(p, {"stopU", "stopR"}, "run")

\* ------------------------------------------------------- the specification
MainNext ==
    \/ \E b \in BOOLEAN : CmdLaunch(b)
    \/ Fork
    \/ ForkFail
    \/ Addjob
    \/ Unblock
    \/ PrintBg
    \/ WaitfgEnter
    \/ WaitfgTest
    \/ WaitfgWake
    \/ \E b \in BOOLEAN, a \in Args : CmdBgfg(b, a)
    \/ BgfgSet
    \/ BgfgKill
    \/ CmdJobs
    \/ CmdQuit

HandlerNext ==
    \/ ChldEnter
    \/ \E p \in Pids : ChldReap(p)
    \/ ChldDone
    \/ \E h \in {"int", "tstp"} : SigHandler(h)

EnvNext ==
    \/ \E p \in Pids : ChildExec(p)
    \/ \E p \in Pids : ChildExecFail(p)
    \/ \E p \in Pids : ChildExit(p)
    \/ \E p \in Pids : ChildSignaled(p)
    \/ \E p \in Pids : ChildStop(p)
    \/ \E p \in Pids : ChildCont(p)

Next == MainNext \/ HandlerNext \/ EnvNext

Spec == Init /\ [][Next]_vars

\* What the shell process does by itself, without a new command line, a
\* keystroke or a child's doing: the main flow inside eval, do_bgfg and
\* waitfg, and sigchld_handler once SIGCHLD can be delivered.
ShellStep ==
    \/ Fork
    \/ Addjob
    \/ Unblock
    \/ PrintBg
    \/ WaitfgEnter
    \/ WaitfgTest
    \/ WaitfgWake
    \/ BgfgSet
    \/ BgfgKill
    \/ ChldEnter
    \/ \E p \in Pids : ChldReap(p)
    \/ ChldDone

\* A session without ctrl-c and ctrl-z.
QuietNext ==
    \/ MainNext
    \/ ChldEnter
    \/ \E p \in Pids : ChldReap(p)
    \/ ChldDone
    \/ EnvNext

\* Such a session, in which the process is scheduled and its signals are
\* delivered: it does not stand still for ever while it has a step to take.
FairSpec == Init /\ [][QuietNext]_vars /\ WF_vars(ShellStep)

TypeOK ==
    /\ jobs \in [Slots -> [pid : TablePids \cup Pids, jid : 0..MaxJid, state : {UNDEF, FG, BG, ST}]]
    /\ nextjid \in 1..(MaxJid + 1)
    /\ pid \in {0} \cup Pids
    /\ jid \in 0..MAXJOBS
    /\ argv1 \in Args
    /\ blocked \in BOOLEAN
    /\ hs \in BOOLEAN
    /\ pending \subseteq {"chld", "int", "tstp"}
    /\ errno \in Errnos
    /\ ch \in [Pids -> ChildStates]
    /\ pc \in {"prompt", "fork", "addjob", "unblock", "print", "waitfg", "wtest",
              "wsleep", "bgfg_set", "bgfg_kill", "exited"}

\* ------------------------------------------------- a shell with many jobs
\* The same shell with a pool of MAXJOBS + 1 process ids, so that the job list
\* can fill up, used for background launches only, with children that run
\* their program and exit.
InitBusy == InitWith(MAXJOBS + 1)

BusyNext ==
    \/ CmdLaunch(TRUE)
    \/ Fork
    \/ Addjob
    \/ Unblock
    \/ PrintBg
    \/ ChldEnter
    \/ \E p \in Pids : ChldReap(p)
    \/ ChldDone
    \/ \E p \in Pids : ChildExec(p)
    \/ \E p \in Pids : ChildExit(p)

SpecBusy == InitBusy /\ [][BusyNext]_vars

\* That shell, scheduled and with its signals delivered like FairSpec's.
FairBusy == InitBusy /\ [][BusyNext]_vars /\ WF_vars(ShellStep)

\* The same shell whose children may also stop by themselves (SIGTSTP or
\* SIGSTOP from elsewhere, a read from the terminal in the background).
CrowdNext ==
    \/ BusyNext
    \/ \E p \in Pids : ChildStop(p)

SpecCrowd == InitBusy /\ [][CrowdNext]_vars

\* ------------------------------------------------ the job list on its own
\* addjob and deletejob called in any order, as eval and sigchld_handler call
\* them: addjob with a pid that is in no slot (a child is registered once,
\* and only after it was forked) or with a pid that is none (0, -1),
\* deletejob with any pid.
TAddjob(p, st) ==
    /\ nextjid <= MaxJid
    /\ p >= 1 => \A i \in Slots : jobs[i].pid # p
    /\ jobs' = addjob(jobs, nextjid, p, st).jobs
    /\ nextjid' = addjob(jobs, nextjid, p, st).nextjid
    /\ UNCHANGED <<pc, bg, pid, jobid, argv1, jid, blocked, pending, hs, errno, intr, ch,
                   exitwhy, out>>

TDeletejob(p) ==
    /\ jobs' = deletejob(jobs, nextjid, p).jobs
    /\ nextjid' = deletejob(jobs, nextjid, p).nextjid
    /\ UNCHANGED <<pc, bg, pid, jobid, argv1, jid, blocked, pending, hs, errno, intr, ch,
                   exitwhy, out>>

TableNext ==
    \/ \E p \in TablePids, st \in {FG, BG} : TAddjob(p, st)
    \/ \E p \in TablePids : TDeletejob(p)

SpecTable == Init /\ [][TableNext]_vars

\* ------------------------------------------------------------------ claims
Occupied == {i \in Slots : jobs[i].pid # 0}

\* C1: while a child has been created and is not yet registered, and until
\* addjob has returned, SIGCHLD is blocked in the main flow and
\* sigchld_handler is not running.
C1_BlockedUntilRegistered ==
    pc \in {"addjob", "unblock"} => (blocked /\ ~hs)

\* The child died before it was registered; the SIGCHLD is held back.
C1_Witness ==
    /\ pc = "addjob"
    /\ ch[pid] \in Zombies
    /\ "chld" \in pending

\* C2: no two occupied slots of the job list hold the same jid.
C2_DistinctJids ==
    \A i, k \in Occupied : i # k => jobs[i].jid # jobs[k].jid

\* C3: at most one occupied slot of the job list has state FG.
C3_OneForeground ==
    Cardinality({i \in Occupied : jobs[i].state = FG}) <= 1

\* C4: nextjid is greater than the jid of every occupied slot.
C4_NextjidAboveAll ==
    \A i \in Occupied : jobs[i].jid < nextjid

\* C5: when waitfg returns, the job it waited for is not in the job list or
\* is stopped.
C5_WaitReturnsWhenNotForeground ==
    [][(pc = "wtest" /\ pc' = "prompt") =>
         \/ getjobpid(jobs, pid) = NULL
         \/ jobs[getjobpid(jobs, pid)].state = ST]_vars

\* C6: once the job waitfg waits for has terminated, or has stopped and
\* stays stopped, sigchld_handler applies the change and waitfg returns.
C6_WaitEventuallyReturns ==
    (pc \in {"waitfg", "wtest", "wsleep"} /\ ch[pid] \in Zombies \cup {"stopU"})
        ~> (pc = "prompt" \/ (pid \in Pids /\ ch[pid] = "run"))

\* C7: when eval has returned, SIGCHLD is not blocked in the main flow.
C7_UnblockedAfterEval ==
    pc = "prompt" => ~blocked

\* C8: sigint_handler and sigtstp_handler signal nothing but the process
\* group of the foreground job: a step of theirs changes no child but the
\* foreground job's, and puts no SIGINT or SIGTSTP on the shell itself.
C8_SignalsForegroundOnly ==
    [][(\E h \in {"int", "tstp"} : SigHandler(h)) =>
         /\ pending' \cap {"int", "tstp"} = {}
         /\ \A p \in Pids : ch'[p] # ch[p] =>
              /\ getjobpid(jobs, p) # NULL
              /\ jobs[getjobpid(jobs, p)].state = FG]_vars

\* sigchld_handler reaps child p in this step.
ReapStep(p) ==
    /\ hs
    /\ ch[p] \in Zombies \cup {"stopU"}
    /\ ch'[p] = IF ch[p] = "stopU" THEN "stopR" ELSE "none"

\* C9: when sigchld_handler reaps a child, a stopped child's slot stays
\* occupied, with state ST; a child that was killed by a signal or exited
\* has no slot any more; every other slot is as it was.
C9_ReapUpdatesOneSlot ==
    [][\A p \in Pids : ReapStep(p) =>
         LET i == getjobpid(jobs, p)
         IN  /\ (ch[p] = "stopU" /\ i # NULL) =>
                    jobs'[i] = [pid |-> p, jid |-> jobs[i].jid, state |-> ST]
             /\ ch[p] \in Zombies => getjobpid(jobs', p) = NULL
             /\ \A k \in Slots \ {i} : jobs'[k] = jobs[k]]_vars

\* The handler has just marked a job stopped, next to another job.
C9_Witness ==
    /\ hs
    /\ \E i, k \in Occupied :
         /\ i # k
         /\ jobs[i].state = ST
         /\ ch[jobs[i].pid] = "stopR"
         /\ jobs[k].state = BG

\* C10: the shell does not abort when sigchld_handler's loop ends because
\* waitpid returned 0 or failed with ECHILD (waitpid fails in no other way
\* here, so the shell never aborts with "waitpid error").
C10_NoAbortWithoutError ==
    exitwhy # "waitpid error"

\* The string is an integer: an optional sign and one or more digits, and
\* nothing else (after the % of a %-prefixed argument).
AllDigits(s) == s # <<>> /\ \A k \in 1..Len(s) : s[k] \in Digits

IsInteger(s) ==
    LET body == IF IsPct(s) THEN Tail(s) ELSE s
    IN  IF body # <<>> /\ Head(body) = "-" THEN AllDigits(Tail(body))
        ELSE AllDigits(body)

\* C11: a bg or fg command whose argument is missing, is no integer (bare
\* or after a %) or resolves to no job changes no slot of the job list and
\* not nextjid, sends no signal and does not call waitfg: neither the step
\* that reads the command nor a later step of do_bgfg for that command does.
C11_BadArgumentNoEffect ==
    [][/\ \A b \in BOOLEAN, a \in Args :
            (CmdBgfg(b, a) /\ (~a.given \/ ~IsInteger(a.s) \/ Lookup(a.s) = NULL)) =>
                (jobs' = jobs /\ nextjid' = nextjid /\ ch' = ch /\ pending' = pending)
       /\ ((BgfgSet \/ BgfgKill) /\ ~IsInteger(argv1.s)) =>
            (jobs' = jobs /\ nextjid' = nextjid /\ ch' = ch /\ pending' = pending
             /\ pc' # "waitfg")]_vars

\* C12: a bg command that found its job, by %jid or by pid, sets the job's
\* state to BG, sends SIGCONT to the job's process group and to no other,
\* and prints a line with the job's jid in brackets and its pid in
\* parentheses.
C12_BgSetsContinuesPrints ==
    [][/\ (BgfgSet /\ bg /\ jobs[jid].pid = pid) =>
            jobs'[jid] = [jobs[jid] EXCEPT !.state = BG]
       /\ (BgfgKill /\ bg /\ getjobpid(jobs, pid) # NULL) =>
            /\ ch'[pid] \in Delivered(ch[pid], "SIGCONT")
            /\ \A q \in Pids \ {pid} : ch'[q] = ch[q]
            /\ out' = Line("bg", jobs[getjobpid(jobs, pid)].jid, pid,
                           "[jid] (pid) cmdline")]_vars

\* C13: after a background launch has registered its job, eval prints one
\* line with the jid addjob gave the job (a jid from addjob is never 0, and
\* it is the jid of the job's slot as long as the job is in the list) and
\* with the child's pid, and returns to the prompt without waiting, also
\* when the child has terminated before the line is printed.
C13_BgLaunchPrintsItsJid ==
    [][PrintBg =>
         /\ out'.by = "eval"
         /\ out'.pid = pid
         /\ out'.jid # 0
         /\ getjobpid(jobs, pid) # NULL => out'.jid = jobs[getjobpid(jobs, pid)].jid
         /\ pc' = "prompt"]_vars

\* C14: a child whose execve fails terminates there, with an exit status
\* that is not 0, and runs nothing of eval's parent side: the step leaves
\* it a zombie and changes neither the job list nor the main flow.
C14_ExecFailureExitsNonZero ==
    [][\A p \in Pids : (ch[p] = "pre" /\ ch'[p] = "zfail") =>
         /\ ExecFailStatus # 0
         /\ jobs' = jobs
         /\ nextjid' = nextjid
         /\ pc' = pc]_vars

\* C15: quit ends the shell process in the step that reads it, and that
\* step changes no child (no signal is sent, none is reaped) and no slot of
\* the job list.
C15_QuitExitsAtOnce ==
    [][(exitwhy = "" /\ exitwhy' = "quit") =>
         /\ pc' = "exited"
         /\ ch' = ch
         /\ pending' = pending
         /\ jobs' = jobs
         /\ nextjid' = nextjid]_vars

\* The shell has quit with a running background job and a stopped job.
C15_Witness ==
    /\ exitwhy = "quit"
    /\ \E i, k \in Occupied :
         /\ jobs[i].state = BG /\ ch[jobs[i].pid] = "run"
         /\ jobs[k].state = ST /\ ch[jobs[k].pid] = "stopR"

\* C16: addjob returns 0 and changes neither the job list nor nextjid when
\* pid < 1 or no slot is free; otherwise it returns 1 and the job list
\* differs in the lowest free slot only, which holds the pid, the state and,
\* as jid, the value nextjid had before the call.
C16_AddjobContract ==
    \A p \in TablePids, st \in {FG, BG} :
        LET r == addjob(jobs, nextjid, p, st)
            free == {i \in Slots : jobs[i].pid = 0}
        IN  IF p <= 0 \/ free = {}
            THEN ~r.ok /\ r.jobs = jobs /\ r.nextjid = nextjid
            ELSE /\ r.ok
                 /\ \E i \in free :
                      /\ \A k \in free : i <= k
                      /\ r.jobs = [jobs EXCEPT
                                     ![i] = [pid |-> p, jid |-> nextjid, state |-> st]]

\* addjob has filled the list up to a free slot that lies below an occupied
\* one, and nextjid has moved on.
C16_Witness ==
    /\ nextjid > 1
    /\ \E i \in Occupied, k \in Slots : k < i /\ jobs[k].pid = 0
    /\ Cardinality(Occupied) = MAXJOBS - 1

\* C17: deletejob(pid) returns 0 and changes neither the job list nor
\* nextjid when pid < 1 or no occupied slot holds pid; otherwise it returns
\* 1, the job list differs in that slot only, which is cleared, and nextjid
\* is one more than the largest jid of the slots that are still occupied,
\* or 1 when none is.
C17_DeletejobContract ==
    \A p \in TablePids :
        LET r == deletejob(jobs, nextjid, p)
            hit == {i \in Occupied : jobs[i].pid = p}
            left == {r.jobs[k].jid : k \in {k \in Slots : r.jobs[k].pid # 0}}
        IN  IF p <= 0 \/ hit = {}
            THEN ~r.ok /\ r.jobs = jobs /\ r.nextjid = nextjid
            ELSE /\ r.ok
                 /\ \E i \in hit : r.jobs = [jobs EXCEPT ![i] = EmptyJob]
                 /\ IF left = {} THEN r.nextjid = 1
                    ELSE /\ r.nextjid - 1 \in left
                         /\ \A j \in left : j <= r.nextjid - 1

\* deletejob has left a free slot below an occupied one, and nextjid follows
\* the largest jid that is left, with a smaller jid free again.
C17_Witness ==
    /\ \E i \in Occupied, k \in Slots : k < i /\ jobs[k].pid = 0
    /\ \E i \in Occupied : jobs[i].jid = nextjid - 1 /\ jobs[i].jid > Cardinality(Occupied)
    /\ \A i \in Occupied : jobs[i].jid < nextjid

\* C18: sigint_handler and sigtstp_handler change no slot of the job list
\* and not nextjid; a slot's state becomes ST, or an occupied slot becomes
\* free, in a step of sigchld_handler only.
C18_OnlyChldHandlerMutates ==
    [][/\ (\E h \in {"int", "tstp"} : SigHandler(h)) =>
            (jobs' = jobs /\ nextjid' = nextjid)
       /\ \A i \in Slots :
            (\/ jobs[i].state # ST /\ jobs'[i].state = ST
             \/ jobs[i].pid # 0 /\ jobs'[i].pid = 0) => (hs /\ hs')]_vars

\* The foreground job has been stopped while waitfg waits for it, and the
\* job list still shows it in the foreground.
C18_Witness ==
    /\ pc \in {"wtest", "wsleep"}
    /\ ~hs
    /\ fgpid(jobs) = pid
    /\ pid # 0
    /\ ch[pid] = "stopU"

\* C19: every free slot of the job list (pid = 0) has jid 0 and state UNDEF.
C19_FreeSlotsAreClear ==
    \A i \in Slots : jobs[i].pid = 0 => (jobs[i].jid = 0 /\ jobs[i].state = UNDEF)

\* C20: when sigchld_handler handles a stopped child, the child's pid is in
\* the job list: getjobpid(jobs, pid) is not NULL, whatever launches came
\* before, those whose addjob failed included.
C20_StoppedChildHasJob ==
    [][\A p \in Pids : (ReapStep(p) /\ ch[p] = "stopU") =>
         getjobpid(jobs, p) # NULL]_vars

\* sigchld_handler has just marked a job stopped in a full job list, while
\* another child is running.
C20_Witness ==
    /\ hs
    /\ Cardinality(Occupied) = MAXJOBS
    /\ \E p, q \in Pids :
         /\ ch[p] = "stopR"
         /\ getjobpid(jobs, p) # NULL
         /\ jobs[getjobpid(jobs, p)].state = ST
         /\ ch[q] = "run"

\* C21: whenever eval has returned to main's loop, every child that is not
\* reaped yet has an occupied slot of the job list with its pid.
C21_ChildrenAreTracked ==
    pc = "prompt" => \A p \in Pids : ch[p] # "none" => getjobpid(jobs, p) # NULL

\* C22: once a launch has failed on a full job list (eval is back at the
\* prompt with the list full; only a failed addjob leaves SIGCHLD blocked
\* there) and a job of the list has terminated, the job is reaped and a slot
\* of the list is free again.
C22_ExhaustionRecovers ==
    (/\ pc = "prompt"
     /\ blocked
     /\ Cardinality(Occupied) = MAXJOBS
     /\ \E p \in Pids : ch[p] \in Zombies /\ getjobpid(jobs, p) # NULL)
        ~> (Cardinality(Occupied) < MAXJOBS)

====
